---- MODULE Spec2Model ----
(***************************************************************************)
(* Job-orchestration layer of xCell: run_cls.py (the driver and its        *)
(* launchers) and xcell/cls/tools.py.                                      *)
(*                                                                         *)
(* Strings are modelled as sequences of one-character strings, so that     *)
(* formatting, concatenation, splitting and the substring test             *)
(* `label in qjobs` are computed character by character.                   *)
(***************************************************************************)
EXTENDS Integers, Sequences, FiniteSets, TLC

VARIABLES
    data,     \* the configuration object `data` (Data(data_path=args.INPUT))
    files,    \* paths of the regular files that exist under data.data['output']
    scripts,  \* content of the generated per-group scripts, by script path
    queue,    \* jobs handed to the cluster queue (addqueue) or run on login
    last,     \* what the last driver invocation / function call did
    drv,      \* launch_cov_batches2 invocations in progress, by process
    nextid,   \* number of launch_cov_batches2 invocations started so far
    partial   \* paths of the files on disk that are not completely written

vars == <<data, files, scripts, queue, last, drv, nextid, partial>>

-----------------------------------------------------------------------------
(* Bounds of the model *)

\* longest list returned by one call of data.get_cl_trs_names /
\* data.get_cov_trs_names
MaxPart == 1

-----------------------------------------------------------------------------
(* Strings *)

\* Unicode code point of the characters that occur in tracer identifiers
\* (numpy compares strings code point by code point)
Ord(ch) ==
    CASE ch = "0" -> 48
      [] ch = "1" -> 49
      [] ch = "A" -> 65
      [] ch = "B" -> 66
      [] ch = "_" -> 95
      [] OTHER -> 120

\* s < t for strings (lexicographic, a proper prefix is smaller)
RECURSIVE StrLess(_, _)
StrLess(s, t) ==
    IF t = <<>> THEN FALSE
    ELSE IF s = <<>> THEN TRUE
    ELSE IF Ord(Head(s)) # Ord(Head(t)) THEN Ord(Head(s)) < Ord(Head(t))
    ELSE StrLess(Tail(s), Tail(t))

\* r < q for rows of strings of the same length (lexicographic by column)
RECURSIVE RowLess(_, _)
RowLess(r, q) ==
    IF r = <<>> \/ q = <<>> THEN FALSE
    ELSE IF Head(r) # Head(q) THEN StrLess(Head(r), Head(q))
    ELSE RowLess(Tail(r), Tail(q))

\* python: sub in s (substring test on str)
InStr(sub, s) ==
    \E i \in 0..(Len(s) - Len(sub)) : SubSeq(s, i + 1, i + Len(sub)) = sub

\* python: sep.join(parts)
RECURSIVE StrJoin(_, _)
StrJoin(sep, parts) ==
    IF parts = <<>> THEN <<>>
    ELSE IF Len(parts) = 1 THEN parts[1]
    ELSE parts[1] \o sep \o StrJoin(sep, Tail(parts))

\* os.path.join(a, b) for a relative b
PathJoin(a, b) == a \o <<"/">> \o b

\* the elements of a list, as a set
Range(s) == {s[i] : i \in DOMAIN s}

\* the elements of a finite set of rows in ascending order
RECURSIVE SortedRows(_)
SortedRows(S) ==
    IF S = {} THEN <<>>
    ELSE LET m == CHOOSE x \in S : \A y \in S : y = x \/ RowLess(x, y)
         IN  <<m>> \o SortedRows(S \ {m})

\* np.unique(rows, axis=0).tolist(): the distinct rows, sorted
np_unique_keepdup(rows) == rows

np_unique(rows) == SortedRows(Range(rows))

-----------------------------------------------------------------------------
(* Literals *)

TrA0 == <<"A", "_", "_", "0">>
TrA1 == <<"A", "_", "_", "1">>
TrB0 == <<"B", "_", "_", "0">>

Tracers == {TrA0, TrA1, TrB0}

MaskM  == <<"m">>
MaskN  == <<"n">>
MaskMM == <<"m", "_", "_", "m">>

Masks == {MaskM, MaskN, MaskMM}

\* data.data['output']
OutDir == <<"o">>

\* all lists over S of length at most n
SeqUpTo(S, n) == UNION {[1..k -> S] : k \in 0..n}

-----------------------------------------------------------------------------
(* run_cls.py: get_jobs_with_same_cwsp *)

\* f'cov/cw__{mask1}__{mask2}__{mask3}__{mask4}.fits' joined to the output dir
CwspPath(d, trs) ==
    PathJoin(OutDir,
        <<"c", "o", "v", "/", "c", "w", "_", "_">>
        \o d.mask_name[trs[1]] \o <<"_", "_">> \o d.mask_name[trs[2]]
        \o <<"_", "_">> \o d.mask_name[trs[3]] \o <<"_", "_">>
        \o d.mask_name[trs[4]] \o <<".", "f", "i", "t", "s">>)

CwspIndexNone(cw, fname) == 0

\* position of the entry of the ordered dict cw with key fname (0: none)
CwspIndex(cw, fname) ==
    IF \E i \in DOMAIN cw : cw[i].fname = fname
    THEN CHOOSE i \in DOMAIN cw : cw[i].fname = fname
    ELSE 0

\* the loop of lines 71-84 over cov_tracers, cw being the dict built so far
RECURSIVE CwspLoop(_, _, _)
RECURSIVE CwspLoopOverwrite(_, _, _)
CwspLoopOverwrite(d, cov_tracers, cw) ==
    IF cov_tracers = <<>> THEN cw
    ELSE LET trs   == Head(cov_tracers)
             fname == CwspPath(d, trs)
             i     == CwspIndex(cw, fname)
         IN  CwspLoopOverwrite(d, Tail(cov_tracers),
                 IF i # 0
                 THEN [cw EXCEPT ![i].trs_list = <<trs>>]
                 ELSE Append(cw, [fname |-> fname, trs_list |-> <<trs>>]))

CwspLoop(d, cov_tracers, cw) ==
    IF cov_tracers = <<>> THEN cw
    ELSE LET trs   == Head(cov_tracers)
             fname == CwspPath(d, trs)
             i     == CwspIndex(cw, fname)
         IN  CwspLoop(d, Tail(cov_tracers),
                 IF i # 0
                 THEN [cw EXCEPT ![i].trs_list = Append(@, trs)]
                 ELSE Append(cw, [fname |-> fname, trs_list |-> <<trs>>]))

\* the merged, de-duplicated covariance tasks (lines 65-67)
CovTracers(d) == np_unique(d.cov_wsp \o d.cov_nowsp)

\* the dict {fname: [trs, ...]} in insertion order
get_jobs_with_same_cwsp(d) == CwspLoop(d, CovTracers(d), <<>>)

-----------------------------------------------------------------------------
(* The Data object (xcell.cls.data) as run_cls.py uses it *)

\* data.get_tracer_bare_name(tr): the part of the identifier before "__"
RECURSIVE get_tracer_bare_name(_)
get_tracer_bare_name(tr) ==
    IF Len(tr) < 2 THEN tr
    ELSE IF tr[1] = "_" /\ tr[2] = "_" THEN <<>>
    ELSE <<Head(tr)>> \o get_tracer_bare_name(Tail(tr))

\* data.get_tracers_bare_name_pair(tr1, tr2, '_')
get_tracers_bare_name_pair(tr1, tr2) ==
    get_tracer_bare_name(tr1) \o <<"_">> \o get_tracer_bare_name(tr2)

-----------------------------------------------------------------------------
(* run_cls.py: check_skip, labels, output paths, the queue *)

\* check_skip on the first tracer only
check_skip_first(d, skip, trs) ==
    IF trs = <<>> THEN FALSE
    ELSE Head(trs) \in skip \/ get_tracer_bare_name(Head(trs)) \in skip

\* lines 39-45; skip is the list args.skip, read only through `in`
RECURSIVE check_skip(_, _, _)
check_skip(d, skip, trs) ==
    IF trs = <<>> THEN FALSE
    ELSE IF Head(trs) \in skip THEN TRUE
    ELSE IF get_tracer_bare_name(Head(trs)) \in skip THEN TRUE
    ELSE check_skip(d, skip, Tail(trs))

\* 'cl_{}_{}'.format(tr1, tr2)
ClComment(tr1, tr2) == <<"c", "l", "_">> \o tr1 \o <<"_">> \o tr2

\* 'cov_{}_{}_{}_{}'.format(*trs)
CovComment(trs) ==
    <<"c", "o", "v", "_">> \o trs[1] \o <<"_">> \o trs[2] \o <<"_">>
    \o trs[3] \o <<"_">> \o trs[4]

Npz == <<".", "n", "p", "z">>

\* launch_cls, lines 270-272 and 289-290: the Cl output of a task
ClOutDir(fiducial) ==
    IF fiducial THEN PathJoin(OutDir, <<"f", "i", "d", "u", "c", "i", "a", "l">>)
    ELSE OutDir

ClFile(fiducial, tr1, tr2) ==
    PathJoin(PathJoin(ClOutDir(fiducial), get_tracers_bare_name_pair(tr1, tr2)),
             ClComment(tr1, tr2) \o Npz)

\* os.path.join(outdir, 'cov', comment + '.npz') and
\* os.path.join(outdir, 'cov/cov_{}_{}_{}_{}.npz'.format(*trs))
CovFile(trs) ==
    PathJoin(PathJoin(OutDir, <<"c", "o", "v">>), CovComment(trs) \o Npz)

\* os.path.basename(path)
RECURSIVE basename(_)
basename(path) ==
    IF "/" \notin Range(path) THEN path ELSE basename(Tail(path))

\* the list of the elements of a finite set, in some fixed order
RECURSIVE SetToSeq(_)
SetToSeq(S) ==
    IF S = {} THEN <<>>
    ELSE LET x == CHOOSE y \in S : TRUE IN <<x>> \o SetToSeq(S \ {x})

\* get_queued_jobs(): the text `q -tn` prints, one line per job in the
\* queue with its comment (the label given to addqueue -c)
RECURSIVE QueueLines(_)
QueueLines(js) ==
    IF js = <<>> THEN <<>>
    ELSE js[1].comment \o <<"\n">> \o QueueLines(Tail(js))

get_queued_jobs == QueueLines(SetToSeq({j \in queue : ~j.onlogin}))

\* lines 274-277: the queue is asked only on the host glamdring
QJobs(host) == IF host = "glamdring" THEN get_queued_jobs ELSE <<>>

\* the number of calls of get_queued_jobs() in lines 274-277
QueueQueries(host) == IF host = "glamdring" THEN 1 ELSE 0

\* the jobs of a list of submissions that stay in flight after the call:
\* with onlogin os.system runs the command itself and returns at its end
InFlight(submitted) == {j \in Range(submitted) : ~j.onlogin}

-----------------------------------------------------------------------------
(* run_cls.py: launch_cls *)

ClJob(fiducial, onlogin, tr1, tr2) ==
    [ comment |-> ClComment(tr1, tr2), onlogin |-> onlogin,
      mod |-> "xcell.cls.cl", trs |-> <<tr1, tr2>>, fiducial |-> fiducial ]

\* `if c >= njobs: break` (lines 282, 326 and 222)
CapReachedOffByOne(njobs, c) == c > njobs

CapReached(njobs, c) == c >= njobs

\* `elif comment in qjobs: continue` (lines 284, 328 and 224)
QueuedIgnored(qjobs, comment) == FALSE

Queued(qjobs, comment) == InStr(comment, qjobs)

ClsOutputDoneIgnored(d, a, fs, tr1, tr2) == FALSE

\* line 294
ClsOutputDone(d, a, fs, tr1, tr2) ==
    ClFile(a.fiducial, tr1, tr2) \in fs /\ ~(d.recompute.cls \/ d.recompute.mcm)

\* the loop of lines 279-307 from task `rest[1]` on; st = [c, fs, submitted],
\* fs being the files that exist: with onlogin the job has run when
\* os.system returns, and it has written its output if it is in a.ok
RECURSIVE ClsLoop(_, _, _, _, _)
ClsLoop(d, a, qjobs, rest, st) ==
    IF rest = <<>> THEN st
    ELSE LET tr1 == Head(rest)[1]
             tr2 == Head(rest)[2]
             comment == ClComment(tr1, tr2)
         IN  IF CapReached(a.njobs, st.c) THEN st
             ELSE IF Queued(qjobs, comment)
                  THEN ClsLoop(d, a, qjobs, Tail(rest), st)
             ELSE IF check_skip(d, a.skip, <<tr1, tr2>>)
                  THEN ClsLoop(d, a, qjobs, Tail(rest), st)
             ELSE IF ClsOutputDone(d, a, st.fs, tr1, tr2)
                  THEN ClsLoop(d, a, qjobs, Tail(rest), st)
             ELSE ClsLoop(d, a, qjobs, Tail(rest),
                    [ c |-> st.c + 1,
                      fs |-> IF a.onlogin /\ <<tr1, tr2>> \in a.ok
                             THEN st.fs \cup {ClFile(a.fiducial, tr1, tr2)}
                             ELSE st.fs,
                      submitted |-> Append(st.submitted,
                                      ClJob(a.fiducial, a.onlogin, tr1, tr2)) ])

\* lines 266-269: the merged, de-duplicated Cl tasks
ClTracers(d) == np_unique(d.cl_wsp \o d.cl_nowsp)

launch_cls(d, a, qjobs, fs) ==
    ClsLoop(d, a, qjobs, ClTracers(d), [c |-> 0, fs |-> fs, submitted |-> <<>>])

-----------------------------------------------------------------------------
(* run_cls.py: launch_cov *)

CovJob(onlogin, trs) ==
    [ comment |-> CovComment(trs), onlogin |-> onlogin,
      mod |-> "xcell.cls.cov", trs |-> trs ]

\* what one run of `python3 -m xcell.cls.cov INPUT tr1 tr2 tr3 tr4` leaves on
\* disk when it succeeds: the covariance and the workspace it was built with
CovOutputs(d, trs) == {CovFile(trs), CwspPath(d, trs)}

\* lines 332-334, 139-141 and 230-232
CovOutputDoneIgnored(d, fs, trs) == FALSE

CovOutputDone(d, fs, trs) ==
    CovFile(trs) \in fs /\ ~(d.recompute.cov \/ d.recompute.cmcm)

\* the loop of lines 323-341; st = [c, fs, submitted]
RECURSIVE CovLoop(_, _, _, _, _)
CovLoop(d, a, qjobs, rest, st) ==
    IF rest = <<>> THEN st
    ELSE LET trs == Head(rest)
             comment == CovComment(trs)
         IN  IF CapReached(a.njobs, st.c) THEN st
             ELSE IF Queued(qjobs, comment)
                  THEN CovLoop(d, a, qjobs, Tail(rest), st)
             ELSE IF check_skip(d, a.skip, trs)
                  THEN CovLoop(d, a, qjobs, Tail(rest), st)
             ELSE IF CovOutputDone(d, st.fs, trs)
                  THEN CovLoop(d, a, qjobs, Tail(rest), st)
             ELSE CovLoop(d, a, qjobs, Tail(rest),
                    [ c |-> st.c + 1,
                      fs |-> IF a.onlogin /\ trs \in a.ok
                             THEN st.fs \cup CovOutputs(d, trs)
                             ELSE st.fs,
                      submitted |-> Append(st.submitted, CovJob(a.onlogin, trs)) ])

launch_cov(d, a, qjobs, fs) ==
    CovLoop(d, a, qjobs, CovTracers(d), [c |-> 0, fs |-> fs, submitted |-> <<>>])

-----------------------------------------------------------------------------
(* run_cls.py: the per-group scripts of launch_cov_batches and            *)
(* launch_cov_batches2                                                     *)

LockPath(cw) == cw \o <<".", "l", "o", "c", "k">>

\* os.path.join(outdir_batches, f'{os.path.basename(cw)}.sh')
ShName(cw) ==
    PathJoin(PathJoin(OutDir, <<"r", "u", "n", "_", "b", "a", "t", "c", "h", "e", "s">>),
             basename(cw) \o <<".", "s", "h">>)

\* lines 137-145 and 228-236: the covariances of a group still to be computed
RECURSIVE CovsTbc(_, _, _, _)
RECURSIVE CovsTbcNoSkip(_, _, _, _)
CovsTbcNoSkip(d, skip, fs, trs_list) ==
    IF trs_list = <<>> THEN <<>>
    ELSE IF CovOutputDone(d, fs, Head(trs_list))
         THEN CovsTbcNoSkip(d, skip, fs, Tail(trs_list))
         ELSE <<Head(trs_list)>> \o CovsTbcNoSkip(d, skip, fs, Tail(trs_list))

CovsTbc(d, skip, fs, trs_list) ==
    IF trs_list = <<>> THEN <<>>
    ELSE LET trs == Head(trs_list)
         IN  IF CovOutputDone(d, fs, trs) \/ check_skip(d, skip, trs)
             THEN CovsTbc(d, skip, fs, Tail(trs_list))
             ELSE <<trs>> \o CovsTbc(d, skip, fs, Tail(trs_list))

\* the commands of a script, without its echo lines
CovCmds(covs_tbc) == [i \in DOMAIN covs_tbc |-> [cmd |-> "cov", trs |-> covs_tbc[i]]]

RmCmd(path) == [cmd |-> "rm", path |-> path]

\* lines 243-249: the script launch_cov_batches writes
BatchScript(cw, covs_tbc, remove_cwsp) ==
    CovCmds(covs_tbc) \o (IF remove_cwsp THEN <<RmCmd(cw)>> ELSE <<>>)

\* lines 157-168: the script launch_cov_batches2 writes
Batch2ScriptNoUnlock(cw, covs_tbc, remove_cwsp) ==
    CovCmds(covs_tbc) \o (IF remove_cwsp THEN <<RmCmd(cw)>> ELSE <<>>)

Batch2ScriptUnlockFirst(cw, covs_tbc, remove_cwsp) ==
    <<RmCmd(LockPath(cw))>> \o CovCmds(covs_tbc)
    \o (IF remove_cwsp THEN <<RmCmd(cw)>> ELSE <<>>)

Batch2Script(cw, covs_tbc, remove_cwsp) ==
    CovCmds(covs_tbc) \o <<RmCmd(LockPath(cw))>>
    \o (IF remove_cwsp THEN <<RmCmd(cw)>> ELSE <<>>)

\* one command of a script run by /bin/bash: the files it leaves; a command
\* that fails (a covariance not in ok, rm of a missing file) does not stop
\* the script
RunCmd(d, fs, cmd, ok) ==
    IF cmd.cmd = "cov"
    THEN IF cmd.trs \in ok THEN fs \cup CovOutputs(d, cmd.trs) ELSE fs
    ELSE fs \ {cmd.path}

\* /bin/bash script, run to its end
RECURSIVE RunScript(_, _, _, _)
RunScript(d, fs, script, ok) ==
    IF script = <<>> THEN fs
    ELSE RunScript(d, RunCmd(d, fs, Head(script), ok), Tail(script), ok)

\* the content of the file at `path` when bash opens it (nothing if missing)
ScriptAt(scr, path) == IF path \in DOMAIN scr THEN scr[path] ELSE <<>>

\* open(path, 'w') followed by the writes: the file holds `content`
WriteScript(scr, path, content) ==
    [q \in DOMAIN scr \cup {path} |-> IF q = path THEN content ELSE scr[q]]

-----------------------------------------------------------------------------
(* run_cls.py: launch_cov_batches *)

BatchJob(onlogin, comment, sh_name) ==
    [ comment |-> comment, onlogin |-> onlogin, mod |-> "bash", sh |-> <<sh_name>> ]

\* the loop of lines 216-260; st = [c, fs, scr, submitted]
RECURSIVE BatchesLoop(_, _, _, _, _)
BatchesLoop(d, a, qjobs, rest, st) ==
    IF rest = <<>> THEN st
    ELSE LET cw == Head(rest).fname
             comment == basename(cw)
             sh_name == ShName(cw)
             covs_tbc == CovsTbc(d, a.skip, st.fs, Head(rest).trs_list)
             content == BatchScript(cw, covs_tbc, a.remove_cwsp)
         IN  IF CapReached(a.njobs, st.c) THEN st
             ELSE IF Queued(qjobs, comment)
                  THEN BatchesLoop(d, a, qjobs, Tail(rest), st)
             ELSE IF Len(covs_tbc) = 0
                  THEN BatchesLoop(d, a, qjobs, Tail(rest), st)
             ELSE BatchesLoop(d, a, qjobs, Tail(rest),
                    [ c |-> st.c + 1,
                      fs |-> IF a.onlogin
                             THEN RunScript(d, st.fs, content, a.ok)
                             ELSE st.fs,
                      scr |-> WriteScript(st.scr, sh_name, content),
                      submitted |-> Append(st.submitted,
                                      BatchJob(a.onlogin, comment, sh_name)) ])

launch_cov_batches(d, a, qjobs, fs, scr) ==
    BatchesLoop(d, a, qjobs, get_jobs_with_same_cwsp(d),
                [c |-> 0, fs |-> fs, scr |-> scr, submitted |-> <<>>])

-----------------------------------------------------------------------------
(* run_cls.py: launch_to_sacc *)

SaccName == <<"c", "l", "s", "_", "c", "o", "v", ".", "f", "i", "t", "s">>

SaccFile(name) == PathJoin(OutDir, name)

SaccJob(onlogin, name, use) ==
    [ comment |-> <<"t", "o", "_", "s", "a", "c", "c">>, onlogin |-> onlogin,
      mod |-> "xcell.cls.to_sacc", name |-> name, use |-> use ]

\* lines 344-358; the result has the shape of the other launchers'
launch_to_sacc(d, a, fs) ==
    IF SaccFile(a.name) \in fs
    THEN [c |-> 0, fs |-> fs, submitted |-> <<>>]
    ELSE [ c |-> 1,
           fs |-> IF a.onlogin /\ a.ok THEN fs \cup {SaccFile(a.name)} ELSE fs,
           submitted |-> <<SaccJob(a.onlogin, a.name, a.use)>> ]

-----------------------------------------------------------------------------
(* run_cls.py: launch_cov_batches2 *)

Min(x, y) == IF x <= y THEN x ELSE y

\* python: s[lo:hi] for 0 <= lo, 0 <= hi
PySlice(s, lo, hi) == SubSeq(s, lo + 1, Min(hi, Len(s)))

\* str(n) for 0 <= n
RECURSIVE Dec(_)
Dec(n) ==
    LET digit == <<"0", "1", "2", "3", "4", "5", "6", "7", "8", "9">>[(n % 10) + 1]
    IN  IF n < 10 THEN <<digit>> ELSE Dec(n \div 10) \o <<digit>>

\* lines 131-134: the test that ends the loop, and the one that skips a group
Cb2CapReached(a, c) == c >= a.njobs * a.nnodes

Cb2LockIgnored(fs, cw) == FALSE

Cb2Locked(fs, cw) == LockPath(cw) \in fs

\* lines 136-171 for one group; st = [c, fs, scr, sh_tbc]
Cb2GroupLockFirst(d, a, grp, st) ==
    LET cw == grp.fname
        covs_tbc == CovsTbc(d, a.skip, st.fs, grp.trs_list)
        sh_name == ShName(cw)
    IN  IF Len(covs_tbc) = 0 THEN [st EXCEPT !.fs = @ \cup {LockPath(cw)}]
        ELSE [ c |-> st.c + 1,
               fs |-> st.fs \cup {LockPath(cw)},
               scr |-> WriteScript(st.scr, sh_name,
                           Batch2Script(cw, covs_tbc, a.remove_cwsp)),
               sh_tbc |-> Append(st.sh_tbc, sh_name) ]

Cb2Group(d, a, grp, st) ==
    LET cw == grp.fname
        covs_tbc == CovsTbc(d, a.skip, st.fs, grp.trs_list)
        sh_name == ShName(cw)
    IN  IF Len(covs_tbc) = 0 THEN st
        ELSE [ c |-> st.c + 1,
               fs |-> st.fs \cup {LockPath(cw)},
               scr |-> WriteScript(st.scr, sh_name,
                           Batch2Script(cw, covs_tbc, a.remove_cwsp)),
               sh_tbc |-> Append(st.sh_tbc, sh_name) ]

\* the loop of lines 130-171, run without interruption
RECURSIVE Cb2GroupLoop(_, _, _, _)
Cb2GroupLoop(d, a, rest, st) ==
    IF rest = <<>> THEN st
    ELSE IF Cb2CapReached(a, st.c) THEN st
    ELSE IF Cb2Locked(st.fs, Head(rest).fname)
         THEN Cb2GroupLoop(d, a, Tail(rest), st)
    ELSE Cb2GroupLoop(d, a, Tail(rest), Cb2Group(d, a, Head(rest), st))

\* lines 174-175
Cb2NJobs(njobs, n_total_jobs, nnodes) ==
    IF njobs * nnodes > n_total_jobs
    THEN (n_total_jobs \div nnodes) + 1
    ELSE njobs

\* f"batch{nodei}-{njobs}_{timestamp}"; the clock is not modelled, the
\* timestamp is left out of the name
Cb2Name(nodei, njobs) ==
    <<"b", "a", "t", "c", "h">> \o Dec(nodei) \o <<"-">> \o Dec(njobs)

\* lines 183-189: the per-group scripts the outer script of node nodei calls
Cb2Chunk(sh_tbc, nodei, njobs) == PySlice(sh_tbc, nodei, (nodei + 1) * njobs)

Cb2Job(a, nodei, njobs, sh_tbc) ==
    [ comment |-> Cb2Name(nodei, njobs), onlogin |-> a.onlogin,
      mod |-> "bash", sh |-> Cb2Chunk(sh_tbc, nodei, njobs) ]

\* an outer script run to its end: /bin/bash on each per-group script, as it
\* is on disk
RECURSIVE RunOuter(_, _, _, _, _)
RunOuter(d, fs, scr, sh, ok) ==
    IF sh = <<>> THEN fs
    ELSE RunOuter(d, RunScript(d, fs, ScriptAt(scr, Head(sh)), ok), scr, Tail(sh), ok)

\* one turn of the loop of lines 173-198; st = [njobs, fs, submitted]
Cb2Node(d, a, scr, sh_tbc, n_total_jobs, nodei, st) ==
    LET njobs == Cb2NJobs(st.njobs, n_total_jobs, a.nnodes)
        job == Cb2Job(a, nodei, njobs, sh_tbc)
    IN  [ njobs |-> njobs,
          fs |-> IF a.onlogin THEN RunOuter(d, st.fs, scr, job.sh, a.ok) ELSE st.fs,
          submitted |-> Append(st.submitted, job) ]

RECURSIVE Cb2NodeLoop(_, _, _, _, _, _, _)
Cb2NodeLoop(d, a, scr, sh_tbc, n_total_jobs, nodei, st) ==
    IF nodei >= a.nnodes THEN st
    ELSE Cb2NodeLoop(d, a, scr, sh_tbc, n_total_jobs, nodei + 1,
                     Cb2Node(d, a, scr, sh_tbc, n_total_jobs, nodei, st))

\* the whole of launch_cov_batches2, run without interruption
launch_cov_batches2(d, a, fs, scr) ==
    LET cwsp == get_jobs_with_same_cwsp(d)
        g == Cb2GroupLoop(d, a, cwsp, [c |-> 0, fs |-> fs, scr |-> scr, sh_tbc |-> <<>>])
        n == Cb2NodeLoop(d, a, g.scr, g.sh_tbc, Len(cwsp), 0,
                         [njobs |-> a.njobs, fs |-> g.fs, submitted |-> <<>>])
    IN  [ c |-> g.c, fs |-> n.fs, scr |-> g.scr, sh_tbc |-> g.sh_tbc,
          submitted |-> n.submitted ]

-----------------------------------------------------------------------------
(* The configuration object *)

NoRecompute == [cls |-> FALSE, mcm |-> FALSE, cov |-> FALSE, cmcm |-> FALSE]

\* result slot before any call
NoCall == [op |-> "none"]

\* covariance tasks the configurations of SpecCwsp may require
CwspTasks ==
    { <<TrA0, TrB0, TrA0, TrB0>>, <<TrB0, TrA0, TrB0, TrA0>>,
      <<TrA0, TrA0, TrB0, TrB0>> }

\* configurations: every mask naming of the tracers, every pair of task
\* partitions (wsp=True, wsp=False)
CwspConfigs ==
    [ cl_wsp : {<<>>}, cl_nowsp : {<<>>},
      cov_wsp : SeqUpTo(CwspTasks, MaxPart),
      cov_nowsp : SeqUpTo(CwspTasks, MaxPart),
      mask_name : [Tracers -> Masks],
      recompute : {NoRecompute} ]

InitCwsp ==
    /\ data \in CwspConfigs
    /\ files = {}
    /\ scripts = <<>>
    /\ queue = {}
    /\ last = NoCall
    /\ drv = <<>>
    /\ nextid = 0
    /\ partial = {}

\* a call of get_jobs_with_same_cwsp(data)
CallGetJobsWithSameCwsp ==
    /\ last' = [op |-> "get_jobs_with_same_cwsp",
                cwsp |-> get_jobs_with_same_cwsp(data)]
    /\ UNCHANGED <<data, files, scripts, queue, drv, nextid, partial>>

NextCwsp == CallGetJobsWithSameCwsp

SpecCwsp == InitCwsp /\ [][NextCwsp]_vars

-----------------------------------------------------------------------------
(* Claims about get_jobs_with_same_cwsp *)

\* the four mask names of a task
MasksOf(d, trs) == [i \in 1..4 |-> d.mask_name[trs[i]]]

\* t and u are listed under the same artifact path of the dict cw
SameGroup(cw, t, u) ==
    \E i \in DOMAIN cw : t \in Range(cw[i].trs_list) /\ u \in Range(cw[i].trs_list)

\* the tasks get_cov_trs_names returns, over both partitions
ConfigCovTasks(d) == Range(d.cov_wsp) \cup Range(d.cov_nowsp)

\* C9: two covariance tasks are put under the same artifact path if and only
\* if their four mask names are equal position by position, whatever mask
\* names the configuration assigns.
C9_GroupingExact ==
    last.op = "get_jobs_with_same_cwsp" =>
        \A t, u \in ConfigCovTasks(data) :
            SameGroup(last.cwsp, t, u) <=> (MasksOf(data, t) = MasksOf(data, u))

\* C10 as stated: the permuted tasks (A,B,A,B) and (B,A,B,A) always fall into
\* one workspace group.
C10_PermutationCollapse ==
    last.op = "get_jobs_with_same_cwsp" =>
        \A a, b \in Tracers :
            ( /\ <<a, b, a, b>> \in ConfigCovTasks(data)
              /\ <<b, a, b, a>> \in ConfigCovTasks(data) )
            => SameGroup(last.cwsp, <<a, b, a, b>>, <<b, a, b, a>>)

\* the file name the pattern cw__{m1}__{m2}__{m3}__{m4} gives for four masks
CwName(m) == StrJoin(<<"_", "_">>, <<m[1], m[2], m[3], m[4]>>)

\* the number of groups that list task t
GroupsOf(cw, t) == {i \in DOMAIN cw : t \in Range(cw[i].trs_list)}

\* C10 amended: (A,B,A,B) and (B,A,B,A) are not canonicalized: both stay
\* tasks of their own, each listed in exactly one group; they share a group
\* when A and B have the same mask name, and in general exactly when the two
\* names cw__mA__mB__mA__mB and cw__mB__mA__mB__mA are the same string.
C10_PermutationGroups ==
    last.op = "get_jobs_with_same_cwsp" =>
        \A a, b \in Tracers :
            LET t == <<a, b, a, b>>
                u == <<b, a, b, a>>
            IN  ( t \in ConfigCovTasks(data) /\ u \in ConfigCovTasks(data) ) =>
                /\ Cardinality(GroupsOf(last.cwsp, t)) = 1
                /\ Cardinality(GroupsOf(last.cwsp, u)) = 1
                /\ data.mask_name[a] = data.mask_name[b]
                       => SameGroup(last.cwsp, t, u)
                /\ SameGroup(last.cwsp, t, u)
                       <=> (CwName(MasksOf(data, t)) = CwName(MasksOf(data, u)))

\* both permutations are tasks, A and B are different tracers with the same
\* mask name, and one group serves both
C10_Witness ==
    /\ last.op = "get_jobs_with_same_cwsp"
    /\ <<TrA0, TrB0, TrA0, TrB0>> \in ConfigCovTasks(data)
    /\ <<TrB0, TrA0, TrB0, TrA0>> \in ConfigCovTasks(data)
    /\ data.mask_name[TrA0] = data.mask_name[TrB0]
    /\ Len(last.cwsp) = 1
    /\ Len(last.cwsp[1].trs_list) = 2

-----------------------------------------------------------------------------
(* The driver, one invocation after the other (SpecDriver)                 *)
(*                                                                         *)
(* Each action is one whole invocation of a launcher, `last` holding what  *)
(* it did until the driver process ends; jobs in the queue end between     *)
(* invocations.  nc, mem and the queue name only fill in the   *)
(* addqueue command line and are left out.                                 *)

ClTasksD == { <<TrA0, TrA1>>, <<TrA0, TrB0>> }

CovTasksD == { <<TrA0, TrA1, TrA0, TrA1>>, <<TrA0, TrB0, TrA0, TrB0>> }

MasksOneGroup == [tr \in Tracers |-> MaskM]

MasksTwoGroups == [tr \in Tracers |-> IF tr = TrB0 THEN MaskN ELSE MaskM]

\* the lists get_cl_trs_names / get_cov_trs_names may return for one value
\* of wsp: no task twice, at most MaxPart tasks
PartLists(T) ==
    {l \in SeqUpTo(T, MaxPart) : \A i, j \in DOMAIN l : i # j => l[i] # l[j]}

\* a configuration that requires Cl tasks only
ClConfig(wsp, nowsp, recompute) ==
    [ cl_wsp |-> wsp, cl_nowsp |-> nowsp, cov_wsp |-> <<>>, cov_nowsp |-> <<>>,
      mask_name |-> MasksOneGroup, recompute |-> recompute ]

\* a configuration that requires covariance tasks only
CovConfig(wsp, nowsp, mask_name, recompute) ==
    [ cl_wsp |-> <<>>, cl_nowsp |-> <<>>, cov_wsp |-> wsp, cov_nowsp |-> nowsp,
      mask_name |-> mask_name, recompute |-> recompute ]

\* the configurations of SpecDriver: every pair of partitions without
\* recomputation; both tasks with recomputation forced; both covariance
\* tasks with masks that put them in two groups
DriverConfigs ==
    { ClConfig(w, n, NoRecompute) : w \in PartLists(ClTasksD), n \in PartLists(ClTasksD) }
    \cup
    { ClConfig(<<<<TrA0, TrA1>>>>, <<<<TrA0, TrB0>>>>, [NoRecompute EXCEPT !.mcm = TRUE]) }
    \cup
    { CovConfig(w, n, MasksOneGroup, NoRecompute) :
          w \in PartLists(CovTasksD), n \in PartLists(CovTasksD) }
    \cup
    { CovConfig(<<<<TrA0, TrA1, TrA0, TrA1>>>>, <<<<TrA0, TrB0, TrA0, TrB0>>>>,
                MasksTwoGroups, r) :
          r \in {NoRecompute, [NoRecompute EXCEPT !.cmcm = TRUE]} }

\* driver invocations in one behaviour
MaxInv == 2

\* largest -j/--njobs
MaxJobs == 2

\* largest -N/--nnodes
MaxNodes == 2

NJobsArgs == 0..MaxJobs

SkipLists == { {}, {TrA1}, {<<"B">>} }

Hosts == {"glamdring", "other"}

\* the runs of an external computation that succeed when it is run on login
OkSets(onlogin, tasks) == IF onlogin THEN {{}, Range(tasks)} ELSE {{}}

InitDriver ==
    /\ data \in DriverConfigs
    /\ files = {}
    /\ scripts = <<>>
    /\ queue = {}
    /\ last = NoCall
    /\ drv = <<>>
    /\ nextid = 0
    /\ partial = {}

\* what an invocation leaves in `last`
Result(op, a, qjobs, nq, r) ==
    [ op |-> op, a |-> a, qjobs |-> qjobs, nq |-> nq,
      q0 |-> get_queued_jobs, fs0 |-> files, scr0 |-> scripts,
      submitted |-> r.submitted,
      sh_tbc |-> IF "sh_tbc" \in DOMAIN r THEN r.sh_tbc ELSE <<>> ]

\* run_cls.py INPUT cls
LaunchCls ==
    /\ last = NoCall
    /\ nextid < MaxInv
    /\ \E njobs \in NJobsArgs, fiducial, onlogin \in BOOLEAN, skip \in SkipLists,
          host \in Hosts :
       \E ok \in OkSets(onlogin, ClTracers(data)) :
         LET a == [njobs |-> njobs, fiducial |-> fiducial, onlogin |-> onlogin,
                   skip |-> skip, host |-> host, ok |-> ok]
             qjobs == QJobs(host)
             r == launch_cls(data, a, qjobs, files)
         IN  /\ files' = r.fs
             /\ queue' = queue \cup InFlight(r.submitted)
             /\ last' = Result("launch_cls", a, qjobs, QueueQueries(host), r)
    /\ nextid' = nextid + 1
    /\ UNCHANGED <<data, scripts, drv, partial>>

\* run_cls.py INPUT cov
LaunchCov ==
    /\ last = NoCall
    /\ nextid < MaxInv
    /\ \E njobs \in NJobsArgs, onlogin \in BOOLEAN, skip \in SkipLists,
          host \in Hosts :
       \E ok \in OkSets(onlogin, CovTracers(data)) :
         LET a == [njobs |-> njobs, onlogin |-> onlogin,
                   skip |-> skip, host |-> host, ok |-> ok]
             qjobs == QJobs(host)
             r == launch_cov(data, a, qjobs, files)
         IN  /\ files' = r.fs
             /\ queue' = queue \cup InFlight(r.submitted)
             /\ last' = Result("launch_cov", a, qjobs, QueueQueries(host), r)
    /\ nextid' = nextid + 1
    /\ UNCHANGED <<data, scripts, drv, partial>>

\* run_cls.py INPUT cov --batches -N 0
LaunchCovBatches ==
    /\ last = NoCall
    /\ nextid < MaxInv
    /\ \E njobs \in NJobsArgs, onlogin, remove_cwsp \in BOOLEAN, skip \in SkipLists,
          host \in Hosts :
       \E ok \in OkSets(onlogin, CovTracers(data)) :
         LET a == [njobs |-> njobs, onlogin |-> onlogin, remove_cwsp |-> remove_cwsp,
                   skip |-> skip, host |-> host, ok |-> ok]
             qjobs == QJobs(host)
             r == launch_cov_batches(data, a, qjobs, files, scripts)
         IN  /\ files' = r.fs
             /\ scripts' = r.scr
             /\ queue' = queue \cup InFlight(r.submitted)
             /\ last' = Result("launch_cov_batches", a, qjobs, QueueQueries(host), r)
    /\ nextid' = nextid + 1
    /\ UNCHANGED <<data, drv, partial>>

\* run_cls.py INPUT cov --batches -N nnodes, with no other driver running
LaunchCovBatches2 ==
    /\ last = NoCall
    /\ nextid < MaxInv
    /\ \E njobs \in NJobsArgs, nnodes \in 1..MaxNodes, onlogin, remove_cwsp \in BOOLEAN,
          skip \in SkipLists :
       \E ok \in OkSets(onlogin, CovTracers(data)) :
         LET a == [njobs |-> njobs, nnodes |-> nnodes, onlogin |-> onlogin,
                   remove_cwsp |-> remove_cwsp, skip |-> skip, ok |-> ok]
             r == launch_cov_batches2(data, a, files, scripts)
         IN  /\ files' = r.fs
             /\ scripts' = r.scr
             /\ queue' = queue \cup InFlight(r.submitted)
             /\ last' = Result("launch_cov_batches2", a, <<>>, 0, r)
    /\ nextid' = nextid + 1
    /\ UNCHANGED <<data, drv, partial>>

\* run_cls.py INPUT to_sacc
LaunchToSacc ==
    /\ last = NoCall
    /\ nextid < MaxInv
    /\ \E onlogin \in BOOLEAN, use \in {"cls", "nl", "fiducial"} :
       \E ok \in IF onlogin THEN BOOLEAN ELSE {FALSE} :
         LET a == [name |-> SaccName, use |-> use, onlogin |-> onlogin, ok |-> ok]
             r == launch_to_sacc(data, a, files)
         IN  /\ files' = r.fs
             /\ queue' = queue \cup InFlight(r.submitted)
             /\ last' = Result("launch_to_sacc", a, <<>>, 0, r)
    /\ nextid' = nextid + 1
    /\ UNCHANGED <<data, scripts, drv, partial>>

\* what a job of the queue leaves on disk when it has run to its end, the
\* computations in ok having succeeded
JobEffect(d, fs, scr, j, ok) ==
    IF j.mod = "xcell.cls.cl"
    THEN IF j.trs \in ok THEN fs \cup {ClFile(j.fiducial, j.trs[1], j.trs[2])} ELSE fs
    ELSE IF j.mod = "xcell.cls.cov"
    THEN IF j.trs \in ok THEN fs \cup CovOutputs(d, j.trs) ELSE fs
    ELSE IF j.mod = "xcell.cls.to_sacc"
    THEN IF ok # {} THEN fs \cup {SaccFile(j.name)} ELSE fs
    ELSE RunOuter(d, fs, scr, j.sh, ok)

\* the external computations a job runs
JobTasks(scr, j) ==
    IF j.mod = "bash"
    THEN UNION { {c.trs : c \in {x \in Range(ScriptAt(scr, j.sh[i])) : x.cmd = "cov"}}
                 : i \in DOMAIN j.sh }
    ELSE IF j.mod = "xcell.cls.to_sacc" THEN {j.name}
    ELSE {j.trs}

\* a job of the queue runs to its end and leaves the queue
JobFinish ==
    /\ last = NoCall
    /\ \E j \in queue : \E ok \in SUBSET JobTasks(scripts, j) :
         /\ files' = JobEffect(data, files, scripts, j, ok)
         /\ queue' = queue \ {j}
    /\ UNCHANGED <<data, scripts, last, drv, nextid, partial>>

\* the driver process ends
Exit ==
    /\ last # NoCall
    /\ last' = NoCall
    /\ UNCHANGED <<data, files, scripts, queue, drv, nextid, partial>>

NextDriver ==
    \/ LaunchCls
    \/ LaunchCov
    \/ LaunchCovBatches
    \/ LaunchCovBatches2
    \/ LaunchToSacc
    \/ Exit
    \/ JobFinish

SpecDriver == InitDriver /\ [][NextDriver]_vars

-----------------------------------------------------------------------------
(* launch_cov_batches2 invocations running concurrently, and the batch     *)
(* jobs they submit (Spec)                                                 *)
(*                                                                         *)
(* A driver process takes one step for the test of lines 131-134 on a      *)
(* group, one for lines 136-171 on it, and one for each turn of the loop   *)
(* of lines 173-198.  A batch job takes one step to start a per-group      *)
(* script and run its covariance commands, and one for each rm command.    *)

\* the nodes an invocation of Spec may ask for; SpecDriver, where invocations
\* do not interleave, goes up to MaxNodes
MaxConcNodes == 1

\* the configurations of Spec: two covariance tasks, in one workspace group
\* or in two
ConcConfigs ==
    { CovConfig(<<<<TrA0, TrA1, TrA0, TrA1>>>>, <<<<TrA0, TrB0, TrA0, TrB0>>>>,
                m, NoRecompute) : m \in {MasksOneGroup, MasksTwoGroups} }

Init ==
    /\ data \in ConcConfigs
    /\ files = {}
    /\ scripts = <<>>
    /\ queue = {}
    /\ last = NoCall
    /\ drv = <<>>
    /\ nextid = 0
    /\ partial = {}

\* the group a driver process is at
GroupAt(p) == drv[p].cwsp[drv[p].ni]

\* run_cls.py INPUT cov --batches -N nnodes -j njobs: lines 116-129
Cb2Start ==
    /\ nextid < MaxInv
    /\ \E njobs \in 1..MaxJobs, nnodes \in 1..MaxConcNodes, remove_cwsp \in BOOLEAN :
         drv' = Append(drv,
                  [ pc |-> "loop",
                    a |-> [njobs |-> njobs, nnodes |-> nnodes, onlogin |-> FALSE,
                           remove_cwsp |-> remove_cwsp, skip |-> {}, ok |-> {}],
                    cwsp |-> get_jobs_with_same_cwsp(data),
                    ni |-> 1, c |-> 0, sh_tbc |-> <<>>, njobs |-> njobs, nodei |-> 0,
                    seen_locked |-> {} ])
    /\ nextid' = nextid + 1
    /\ UNCHANGED <<data, files, scripts, queue, last, partial>>

\* history, not a variable of the program: the groups whose lock file was on
\* disk at the moment this process ran the test of line 133 on them
SeenLocked(p) ==
    drv[p].seen_locked \cup
        (IF LockPath(GroupAt(p).fname) \in files THEN {GroupAt(p).fname} ELSE {})

\* lines 130-134: the head of the loop, for the next group
Cb2Test(p) ==
    /\ drv[p].pc = "loop"
    /\ drv' = [drv EXCEPT ![p] =
                 IF drv[p].ni > Len(drv[p].cwsp) \/ Cb2CapReached(drv[p].a, drv[p].c)
                 THEN [@ EXCEPT !.pc = "nodes"]
                 ELSE IF Cb2Locked(files, GroupAt(p).fname)
                 THEN [@ EXCEPT !.ni = @ + 1, !.seen_locked = SeenLocked(p)]
                 ELSE [@ EXCEPT !.pc = "group", !.seen_locked = SeenLocked(p)]]
    /\ UNCHANGED <<data, files, scripts, queue, last, nextid, partial>>

\* lines 136-171: the body of the loop, for the group that passed the test
Cb2Create(p) ==
    /\ drv[p].pc = "group"
    /\ LET st == Cb2Group(data, drv[p].a, GroupAt(p),
                     [c |-> drv[p].c, fs |-> files, scr |-> scripts,
                      sh_tbc |-> drv[p].sh_tbc])
       IN  /\ files' = st.fs
           /\ scripts' = st.scr
           /\ drv' = [drv EXCEPT ![p].pc = "loop", ![p].ni = @ + 1,
                                 ![p].c = st.c, ![p].sh_tbc = st.sh_tbc]
    /\ UNCHANGED <<data, queue, last, nextid, partial>>

\* a batch job in the queue: the job, who submitted it, the per-group script
\* it is at and the commands of that script it has still to run
Running(p, nodei, job) ==
    [ id |-> <<p, nodei>>, job |-> job, pos |-> 1, cmds |-> <<>> ]

\* a driver process that has returned from main(): its locals are gone
Exited ==
    [ pc |-> "done", a |-> <<>>, cwsp |-> <<>>, ni |-> 0, c |-> 0, sh_tbc |-> <<>>,
      njobs |-> 0, nodei |-> 0, seen_locked |-> {} ]

\* lines 173-198: one turn of the loop over the nodes
Cb2Submit(p) ==
    /\ drv[p].pc = "nodes"
    /\ IF drv[p].nodei >= drv[p].a.nnodes
       THEN /\ drv' = [drv EXCEPT ![p] = Exited]
            /\ UNCHANGED queue
       ELSE LET st == Cb2Node(data, drv[p].a, scripts, drv[p].sh_tbc,
                              Len(drv[p].cwsp), drv[p].nodei,
                              [njobs |-> drv[p].njobs, fs |-> files, submitted |-> <<>>])
            IN  /\ queue' = queue \cup {Running(p, drv[p].nodei, st.submitted[1])}
                /\ drv' = [drv EXCEPT ![p].njobs = st.njobs, ![p].nodei = @ + 1]
    /\ UNCHANGED <<data, files, scripts, last, nextid, partial>>

\* the covariance commands a script begins with, and what follows them
RECURSIVE LeadingCovs(_)
LeadingCovs(script) ==
    IF script = <<>> \/ Head(script).cmd # "cov" THEN <<>>
    ELSE <<Head(script)>> \o LeadingCovs(Tail(script))

AfterCovs(script) == SubSeq(script, Len(LeadingCovs(script)) + 1, Len(script))

\* the job after the commands `rest` of its current script are left to run
Advance(j, rest) ==
    IF rest = <<>> THEN [j EXCEPT !.pos = @ + 1, !.cmds = <<>>]
    ELSE [j EXCEPT !.cmds = rest]

\* the queue once job j has become j2: a job leaves the queue at the end of
\* its last script
Requeue(j, j2) ==
    (queue \ {j}) \cup (IF j2.pos > Len(j2.job.sh) THEN {} ELSE {j2})

\* the job starts its next per-group script, as it is on disk, and runs the
\* covariance commands it begins with; they all succeed or all fail
JobOpen(id) ==
    \E j \in queue :
      /\ j.id = id
      /\ j.cmds = <<>>
      /\ IF j.pos > Len(j.job.sh)
         THEN /\ queue' = queue \ {j}
              /\ UNCHANGED files
         ELSE LET script == ScriptAt(scripts, j.job.sh[j.pos])
                  covs == LeadingCovs(script)
              IN  \E ok \in {{}, {covs[i].trs : i \in DOMAIN covs}} :
                    /\ files' = RunScript(data, files, covs, ok)
                    /\ queue' = Requeue(j, Advance(j, AfterCovs(script)))
      /\ UNCHANGED <<data, scripts, last, drv, nextid, partial>>

\* the job runs the next command of its script, an rm
JobCmd(id) ==
    \E j \in queue :
      /\ j.id = id
      /\ j.cmds # <<>>
      /\ files' = RunCmd(data, files, Head(j.cmds), {})
      /\ queue' = Requeue(j, Advance(j, Tail(j.cmds)))
      /\ UNCHANGED <<data, scripts, last, drv, nextid, partial>>

Procs == 1..MaxInv

JobIds == Procs \X (0..(MaxConcNodes - 1))

DriverStep(p) ==
    /\ p \in DOMAIN drv
    /\ (Cb2Test(p) \/ Cb2Create(p) \/ Cb2Submit(p))

JobStep(id) == JobOpen(id) \/ JobCmd(id)

Next ==
    \/ Cb2Start
    \/ \E p \in Procs : DriverStep(p)
    \/ \E id \in JobIds : JobStep(id)

Spec == Init /\ [][Next]_vars

\* every driver process that has started runs to its end, and so does every
\* batch job that was submitted
SpecFair ==
    /\ Spec
    /\ \A p \in Procs : WF_vars(DriverStep(p))
    /\ \A id \in JobIds : WF_vars(JobStep(id))

-----------------------------------------------------------------------------
(* The entry point of run_cls.py, from the parsed arguments on (SpecMain)  *)

\* the arguments the dispatch of lines 404-431 looks at
MainArgs ==
    [ clean_lock : BOOLEAN, compute : {"cls", "cov", "to_sacc", "plot"},
      batches : BOOLEAN, nnodes : 0..MaxConcNodes,
      to_sacc_use_nl : BOOLEAN, to_sacc_use_fiducial : BOOLEAN ]

MainTargetCleanLast(m) ==
    IF m.compute = "cls" THEN "launch_cls"
    ELSE IF m.compute = "cov"
    THEN IF m.batches /\ m.nnodes = 0 THEN "launch_cov_batches"
         ELSE IF m.batches /\ m.nnodes > 0 THEN "launch_cov_batches2"
         ELSE "launch_cov"
    ELSE IF m.compute = "to_sacc"
    THEN IF m.to_sacc_use_nl /\ m.to_sacc_use_fiducial THEN "ValueError"
         ELSE "launch_to_sacc"
    ELSE IF m.clean_lock THEN "clean_lock"
    ELSE "ValueError"

MainTargetNoFlagCheck(m) ==
    IF m.clean_lock THEN "clean_lock"
    ELSE IF m.compute = "cls" THEN "launch_cls"
    ELSE IF m.compute = "cov"
    THEN IF m.batches /\ m.nnodes = 0 THEN "launch_cov_batches"
         ELSE IF m.batches /\ m.nnodes > 0 THEN "launch_cov_batches2"
         ELSE "launch_cov"
    ELSE IF m.compute = "to_sacc" THEN "launch_to_sacc"
    ELSE "ValueError"

\* lines 404-431: the function main() calls, or the ValueError it raises
MainTarget(m) ==
    IF m.clean_lock THEN "clean_lock"
    ELSE IF m.compute = "cls" THEN "launch_cls"
    ELSE IF m.compute = "cov"
    THEN IF m.batches /\ m.nnodes = 0 THEN "launch_cov_batches"
         ELSE IF m.batches /\ m.nnodes > 0 THEN "launch_cov_batches2"
         ELSE "launch_cov"
    ELSE IF m.compute = "to_sacc"
    THEN IF m.to_sacc_use_nl /\ m.to_sacc_use_fiducial THEN "ValueError"
         ELSE "launch_to_sacc"
    ELSE "ValueError"

\* lines 422-427
SaccUse(m) ==
    IF m.to_sacc_use_nl THEN "nl"
    ELSE IF m.to_sacc_use_fiducial THEN "fiducial"
    ELSE "cls"

\* lines 89-95: the lock files are listed and the queue is read, nothing is
\* written, and NotImplementedError is raised
clean_lock(d, fs, scr) ==
    [ fs |-> fs, scr |-> scr, submitted |-> <<>>, raised |-> "NotImplementedError" ]

\* what a launcher that returned leaves
Returned(r, scr) ==
    [ fs |-> r.fs, scr |-> IF "scr" \in DOMAIN r THEN r.scr ELSE scr,
      submitted |-> r.submitted, raised |-> "none" ]

\* lines 404-431, with the other arguments in a
main(d, m, a, qjobs, fs, scr) ==
    LET target == MainTarget(m)
    IN  IF target = "clean_lock" THEN clean_lock(d, fs, scr)
        ELSE IF target = "launch_cls" THEN Returned(launch_cls(d, a, qjobs, fs), scr)
        ELSE IF target = "launch_cov_batches"
        THEN Returned(launch_cov_batches(d, a, qjobs, fs, scr), scr)
        ELSE IF target = "launch_cov_batches2"
        THEN Returned(launch_cov_batches2(d, [a EXCEPT !.nnodes = m.nnodes], fs, scr), scr)
        ELSE IF target = "launch_cov" THEN Returned(launch_cov(d, a, qjobs, fs), scr)
        ELSE IF target = "launch_to_sacc"
        THEN Returned(launch_to_sacc(d, [a EXCEPT !.use = SaccUse(m)], fs), scr)
        ELSE [ fs |-> fs, scr |-> scr, submitted |-> <<>>, raised |-> "ValueError" ]

\* the configurations of SpecMain: one with Cl tasks, those of Spec with
\* covariance tasks
MainConfigs ==
    { ClConfig(<<<<TrA0, TrA1>>>>, <<<<TrA0, TrB0>>>>, NoRecompute) } \cup ConcConfigs

InitMain ==
    /\ data \in MainConfigs
    /\ files = {}
    /\ scripts = <<>>
    /\ queue = {}
    /\ last = NoCall
    /\ drv = <<>>
    /\ nextid = 0
    /\ partial = {}

\* one run of run_cls.py, the jobs being sent to the queue
Main ==
    /\ last = NoCall
    /\ nextid < MaxInv
    /\ \E m \in MainArgs, host \in Hosts, remove_cwsp \in BOOLEAN :
         LET a == [ njobs |-> MaxJobs, nnodes |-> m.nnodes, onlogin |-> FALSE,
                    remove_cwsp |-> remove_cwsp, skip |-> {}, fiducial |-> FALSE,
                    host |-> host, ok |-> {}, name |-> SaccName, use |-> "cls" ]
             r == main(data, m, a, QJobs(host), files, scripts)
         IN  /\ files' = r.fs
             /\ scripts' = r.scr
             /\ queue' = queue \cup InFlight(r.submitted)
             /\ last' = [ op |-> "main", main |-> m, raised |-> r.raised,
                          submitted |-> r.submitted,
                          fs0 |-> files, scr0 |-> scripts, queue0 |-> queue ]
    /\ nextid' = nextid + 1
    /\ UNCHANGED <<data, drv, partial>>

NextMain ==
    \/ Main
    \/ Exit
    \/ JobFinish

SpecMain == InitMain /\ [][NextMain]_vars

-----------------------------------------------------------------------------
(* get_mem (SpecMem)                                                       *)

\* longest tracer list given to get_mem
MaxTrs == 2

\* the spins a mapper returns
Spins == {0, 2}

\* lines 16-23: the modes that have a table; any other raises ValueError
MemModes == {"cls", "cov"}

\* lines 15-21: the table d of a mode, in GB by spin
MemTable(compute) ==
    IF compute = "cls" THEN (0 :> 16 @@ 2 :> 25) ELSE (0 :> 16 @@ 2 :> 47)

MemLoopMax(d, spin, trs, mem) ==
    IF trs = <<>> THEN mem
    ELSE LET m1 == d[spin[trs[1]]]
             m2 == IF Len(trs) > 1 THEN d[spin[trs[2]]] ELSE 0
         IN  IF m1 >= m2 THEN IF m1 >= mem THEN m1 ELSE mem
             ELSE IF m2 >= mem THEN m2 ELSE mem

\* lines 25-29: the loop over trs, mem being the sum so far
RECURSIVE MemLoop(_, _, _, _)
MemLoop(d, spin, trs, mem) ==
    IF trs = <<>> THEN mem
    ELSE MemLoop(d, spin, Tail(trs), mem + d[spin[Head(trs)]])

\* get_mem(data, trs, compute); spin[tr] is data.get_mapper(tr).get_spin()
get_mem(spin, trs, compute) ==
    IF compute \notin MemModes
    THEN [raised |-> "ValueError", mem |-> 0]
    ELSE [raised |-> "none", mem |-> MemLoop(MemTable(compute), spin, trs, 0)]

InitMem ==
    /\ data \in ConcConfigs
    /\ files = {}
    /\ scripts = <<>>
    /\ queue = {}
    /\ last = NoCall
    /\ drv = <<>>
    /\ nextid = 0
    /\ partial = {}

\* calls of get_mem on two tracer lists, on their concatenation and on the
\* empty list
CallGetMem ==
    /\ last = NoCall
    /\ \E A, B \in SeqUpTo(Tracers, MaxTrs), spin \in [Tracers -> Spins],
          compute \in {"cls", "cov", "plot"} :
         last' = [ op |-> "get_mem", A |-> A, B |-> B, spin |-> spin,
                   compute |-> compute,
                   rA |-> get_mem(spin, A, compute),
                   rB |-> get_mem(spin, B, compute),
                   rAB |-> get_mem(spin, A \o B, compute),
                   rNone |-> get_mem(spin, <<>>, compute) ]
    /\ UNCHANGED <<data, files, scripts, queue, drv, nextid, partial>>

NextMem == CallGetMem

SpecMem == InitMem /\ [][NextMem]_vars

-----------------------------------------------------------------------------
(* xcell/cls/tools.py: save_wsp and read_wsp, one call at a time (SpecWsp) *)
(*                                                                         *)
(* A call is a process of drv; in this specification nextid counts the     *)
(* calls.  wsp.write_to takes two steps, the opening of the file and the   *)
(* end of the write; wsp.read_from and os.remove take one.  What the       *)
(* library calls do (succeed, or fail with which error) is chosen by the   *)
(* environment.                                                            *)

\* calls of save_wsp / read_wsp in one behaviour
MaxCalls == 2

ErrWriting == "Error writing"

ErrReading == "Error reading"

\* the errors wsp.write_to may end with: RuntimeError with the text
\* 'Error writing', another RuntimeError, an exception that is no RuntimeError
WriteErrors == {ErrWriting, "RuntimeError", "OSError"}

ReadErrors == {ErrReading, "RuntimeError", "OSError"}

\* the workspace paths the calls are about: that of the first task of the
\* configurations of Spec
WspFnames == { CwspPath(d, d.cov_wsp[1]) : d \in ConcConfigs }

FileState(fs, pt, fname) ==
    IF fname \notin fs THEN "absent"
    ELSE IF fname \in pt THEN "partial" ELSE "whole"

InitWsp ==
    /\ data \in ConcConfigs
    /\ files \in SUBSET WspFnames
    /\ partial \in SUBSET files
    /\ scripts = <<>>
    /\ queue = {}
    /\ last = NoCall
    /\ drv = <<>>
    /\ nextid = 0

Finished(p) == drv[p].pc \in {"returned", "raised"}

\* the record of a call: f0 is the state of the file when the call first
\* looks at it, errs the errors of its library calls in order, writes and
\* removes count its wsp.write_to calls and its successful os.remove calls
NewCall(op, fname) ==
    [ op |-> op, fname |-> fname, pc |-> IF op = "save_wsp" THEN "isfile" ELSE "read",
      f0 |-> "unseen", errs |-> <<>>, writes |-> 0, removes |-> 0, raised |-> "none" ]

\* a process calls save_wsp(wsp, fname) or read_wsp(wsp, fname, ...), once
\* the calls before have ended
WspCall ==
    /\ nextid < MaxCalls
    /\ \A p \in DOMAIN drv : Finished(p)
    /\ \E op \in {"save_wsp", "read_wsp"}, fname \in WspFnames :
         drv' = Append(drv, NewCall(op, fname))
    /\ nextid' = nextid + 1
    /\ UNCHANGED <<data, files, scripts, queue, last, partial>>

\* tools.py lines 17-18
SaveIsFile(p) ==
    /\ drv[p].op = "save_wsp" /\ drv[p].pc = "isfile"
    /\ drv' = [drv EXCEPT ![p].f0 = FileState(files, partial, drv[p].fname),
                          ![p].pc = IF drv[p].fname \in files THEN "returned" ELSE "write"]
    /\ UNCHANGED <<data, files, scripts, queue, last, nextid, partial>>

\* lines 20-27: where the error e of write attempt number `writes` leads.  The
\* first attempt is inside try: a RuntimeError with 'Error writing' goes to
\* os.remove, any other is raised; the second attempt is inside the except
\* clause and its error propagates
SaveCatch(writes, e) ==
    IF writes = 1 /\ e = ErrWriting THEN "remove" ELSE "raised"

\* the call after its write attempt has failed with e
SaveFailed(c, e) ==
    LET to == SaveCatch(c.writes, e)
    IN  [c EXCEPT !.errs = Append(@, e), !.pc = to,
                  !.raised = IF to = "raised" THEN e ELSE @]

\* wsp.write_to(fname), lines 21 and 25: the file is opened for writing (it
\* is there, not yet complete), or the opening fails and leaves no file
SaveWriteBegin(p) ==
    /\ drv[p].op = "save_wsp" /\ drv[p].pc = "write"
    /\ LET c == [drv[p] EXCEPT !.writes = @ + 1]
       IN  \/ /\ files' = files \cup {c.fname}
              /\ partial' = partial \cup {c.fname}
              /\ drv' = [drv EXCEPT ![p] = [c EXCEPT !.pc = "writing"]]
           \/ /\ \E e \in WriteErrors : drv' = [drv EXCEPT ![p] = SaveFailed(c, e)]
              /\ UNCHANGED <<files, partial>>
    /\ UNCHANGED <<data, scripts, queue, last, nextid>>

\* wsp.write_to(fname) ends: the file is complete, or the write aborts and
\* leaves what it wrote
SaveWriteEnd(p) ==
    /\ drv[p].op = "save_wsp" /\ drv[p].pc = "writing"
    /\ \/ /\ partial' = partial \ {drv[p].fname}
          /\ drv' = [drv EXCEPT ![p].pc = "returned"]
       \/ /\ \E e \in WriteErrors : drv' = [drv EXCEPT ![p] = SaveFailed(drv[p], e)]
          /\ UNCHANGED partial
    /\ UNCHANGED <<data, files, scripts, queue, last, nextid>>

\* os.remove(fname), tools.py lines 24 and 46: FileNotFoundError if there is
\* no file
OsRemove(p, to) ==
    IF drv[p].fname \in files
    THEN /\ files' = files \ {drv[p].fname}
         /\ partial' = partial \ {drv[p].fname}
         /\ drv' = [drv EXCEPT ![p].removes = @ + 1, ![p].pc = to,
                               ![p].raised = IF to = "raised" THEN Head(drv[p].errs) ELSE @]
    ELSE /\ drv' = [drv EXCEPT ![p].pc = "raised", ![p].raised = "FileNotFoundError"]
         /\ UNCHANGED <<files, partial>>

\* line 24, followed by the write of line 25
SaveRemove(p) ==
    /\ drv[p].op = "save_wsp" /\ drv[p].pc = "remove"
    /\ OsRemove(p, "write")
    /\ UNCHANGED <<data, scripts, queue, last, nextid>>

ReadCatchAll(e) == IF e \in {ErrReading, "RuntimeError"} THEN "remove" ELSE "raised"

\* lines 44-48: a RuntimeError with 'Error reading' goes to os.remove, any
\* other error is raised
ReadCatch(e) == IF e = ErrReading THEN "remove" ELSE "raised"

\* wsp.read_from(fname, read_unbinned_MCM), line 43: it can succeed only on a
\* complete file
ReadFrom(p) ==
    /\ drv[p].op = "read_wsp" /\ drv[p].pc = "read"
    /\ LET c == [drv[p] EXCEPT !.f0 = FileState(files, partial, drv[p].fname)]
       IN  \/ /\ c.f0 = "whole"
              /\ drv' = [drv EXCEPT ![p] = [c EXCEPT !.pc = "returned"]]
           \/ \E e \in ReadErrors :
                drv' = [drv EXCEPT ![p] =
                          [c EXCEPT !.errs = <<e>>, !.pc = ReadCatch(e),
                                    !.raised = IF ReadCatch(e) = "raised" THEN e ELSE @]]
    /\ UNCHANGED <<data, files, scripts, queue, last, nextid, partial>>

\* line 46, followed by the raise of line 48
ReadRemove(p) ==
    /\ drv[p].op = "read_wsp" /\ drv[p].pc = "remove"
    /\ OsRemove(p, "raised")
    /\ UNCHANGED <<data, scripts, queue, last, nextid>>

WspProcs == 1..MaxCalls

WspStep(p) ==
    /\ p \in DOMAIN drv
    /\ \/ SaveIsFile(p)
       \/ SaveWriteBegin(p)
       \/ SaveWriteEnd(p)
       \/ SaveRemove(p)
       \/ ReadFrom(p)
       \/ ReadRemove(p)

NextWsp ==
    \/ WspCall
    \/ \E p \in WspProcs : WspStep(p)

SpecWsp == InitWsp /\ [][NextWsp]_vars

-----------------------------------------------------------------------------
(* Claims about save_wsp and read_wsp (SpecWsp)                            *)

\* the calls of op that have ended
Ended(op) == {p \in DOMAIN drv : drv[p].op = op /\ Finished(p)}

\* C11: a save_wsp call that finds no file at fname makes at most two write
\* attempts; when the first fails with 'Error writing' the file is deleted
\* and exactly one more attempt is made, whose failure is what the caller
\* gets; when the first fails with any other error that error is raised at
\* once, with no deletion and no second attempt.
C11_WriteRetriedOnce ==
    \A p \in Ended("save_wsp") :
        LET c == drv[p]
        IN  c.f0 = "absent" =>
              /\ c.writes <= 2
              /\ c.errs = <<>> => (c.writes = 1 /\ c.removes = 0 /\ c.pc = "returned")
              /\ (c.errs # <<>> /\ c.errs[1] = ErrWriting) =>
                    /\ c.removes = 1
                    /\ c.writes = 2
                    /\ Len(c.errs) = 1 => c.pc = "returned"
                    /\ Len(c.errs) = 2 => (c.pc = "raised" /\ c.raised = c.errs[2])
              /\ (c.errs # <<>> /\ c.errs[1] # ErrWriting) =>
                    /\ c.removes = 0
                    /\ c.writes = 1
                    /\ c.pc = "raised" /\ c.raised = c.errs[1]

-----------------------------------------------------------------------------
(* Claims about concurrent launch_cov_batches2 invocations (Spec, SpecFair) *)

\* the workspace paths of the configurations of Spec
AllCw ==
    UNION { {g.fname : g \in Range(get_jobs_with_same_cwsp(d))} : d \in ConcConfigs }

\* job j has still to run, or is running, the per-group script of workspace
\* cw, and has not yet run the command of it that removes the lock
Holds(j, cw) ==
    \E i \in j.pos..Len(j.job.sh) :
        /\ j.job.sh[i] = ShName(cw)
        /\ \/ i > j.pos
           \/ j.cmds = <<>>
           \/ RmCmd(LockPath(cw)) \in Range(j.cmds)

\* C1: whatever the interleaving of concurrent launch_cov_batches2
\* invocations, two of them never both have a dispatched per-group script for
\* the same workspace path pending or running: once one invocation has
\* created the lock and dispatched its script, no script of another
\* invocation for that workspace is dispatched or run before the lock is
\* removed.
C1_OneScriptPerWorkspace ==
    \A cw \in AllCw : \A j1, j2 \in queue :
        (Holds(j1, cw) /\ Holds(j2, cw)) => j1.id[1] = j2.id[1]

TestsLocked(p) ==
    /\ drv[p].pc = "loop"
    /\ drv[p].ni <= Len(drv[p].cwsp)
    /\ ~Cb2CapReached(drv[p].a, drv[p].c)
    /\ LockPath(GroupAt(p).fname) \in files

\* C3: when the lock file of a group is on disk at the moment an invocation
\* comes to that group, the invocation leaves the lock file as it is, writes
\* no script for the group and puts no script of the group among those it
\* dispatches.
C3_LockedGroupLeftAlone ==
    [][\A p \in Procs : p \in DOMAIN drv =>
          /\ (TestsLocked(p) /\ drv'[p] # drv[p]) =>
                 /\ files' = files
                 /\ scripts' = scripts
                 /\ queue' = queue
                 /\ drv'[p].sh_tbc = drv[p].sh_tbc
          /\ \A cw \in drv'[p].seen_locked :
                 ShName(cw) \notin Range(drv'[p].sh_tbc)]_vars

\* an invocation has gone through its groups, found one locked, and is about
\* to dispatch what it collected
C3_Witness ==
    \E p \in DOMAIN drv :
        /\ drv[p].pc = "nodes"
        /\ drv[p].seen_locked # {}

-----------------------------------------------------------------------------
(* Claims about one invocation of a launcher (SpecDriver)                  *)

\* the tasks of the jobs of a list of submissions
TasksOf(submitted) == [i \in DOMAIN submitted |-> submitted[i].trs]

\* the labels of the jobs of a list of submissions
LabelsOf(submitted) == [i \in DOMAIN submitted |-> submitted[i].comment]

\* the per-group scripts the invocation in `last` wrote or handed to a job
ScriptsWritten ==
    {p \in DOMAIN scripts : p \notin DOMAIN last.scr0 \/ scripts[p] # last.scr0[p]}
    \cup Range(last.sh_tbc)
    \cup UNION {Range(last.submitted[i].sh) :
                  i \in {k \in DOMAIN last.submitted : last.submitted[k].mod = "bash"}}

\* the covariance tasks for which the invocation in `last` wrote a
\* computation command into a per-group script
CovsInScripts ==
    UNION { {c.trs : c \in {x \in Range(scripts[p]) : x.cmd = "cov"}}
            : p \in ScriptsWritten \cap DOMAIN scripts }

\* the Cl / covariance tasks the invocation in `last` dispatched
Dispatched ==
    IF last.op \in {"launch_cls", "launch_cov"} THEN Range(TasksOf(last.submitted))
    ELSE IF last.op \in {"launch_cov_batches", "launch_cov_batches2"} THEN CovsInScripts
    ELSE {}

\* the output of task t existed when the invocation in `last` began and the
\* configuration does not force its recomputation
OutputExisted(t) ==
    IF last.op = "launch_cls"
    THEN /\ ClFile(last.a.fiducial, t[1], t[2]) \in last.fs0
         /\ ~data.recompute.cls /\ ~data.recompute.mcm
    ELSE /\ CovFile(t) \in last.fs0
         /\ ~data.recompute.cov /\ ~data.recompute.cmcm

\* some tracer of t is in the skip-list, by its identifier or its bare name
InSkipList(skip, t) ==
    \E i \in DOMAIN t : t[i] \in skip \/ get_tracer_bare_name(t[i]) \in skip

\* the tasks an invocation of the launcher in `last` goes through
Candidates ==
    IF last.op = "launch_cls" THEN ClTracers(data) ELSE CovTracers(data)

TaskLaunchers ==
    {"launch_cls", "launch_cov", "launch_cov_batches", "launch_cov_batches2"}

SnapshotLaunchers == {"launch_cls", "launch_cov", "launch_cov_batches"}

\* C4: a task whose output file exists when it is considered, recomputation
\* not being forced, is not dispatched by that invocation, whatever the
\* launcher: no job is submitted for it and no command for it is written into
\* a batch script.
C4_ExistingOutputNotDispatched ==
    /\ last.op \in TaskLaunchers =>
           \A t \in Range(Candidates) : OutputExisted(t) => t \notin Dispatched
    /\ last.op = "launch_to_sacc" =>
           (SaccFile(last.a.name) \in last.fs0 => last.submitted = <<>>)

\* an invocation that found the output of one task and dispatched another
C4_Witness ==
    /\ last.op = "launch_cov_batches2"
    /\ \E t, u \in Range(Candidates) :
           /\ OutputExisted(t) /\ ~InSkipList(last.a.skip, t)
           /\ u \in Dispatched
    /\ Len(last.submitted) > 0

\* the label of a unit of work of the launcher in `last`
LabelOfTask(t) == IF last.op = "launch_cls" THEN ClComment(t[1], t[2]) ELSE CovComment(t)

\* task t is eligible for the invocation in `last`
EligibleTask(t) ==
    /\ ~InSkipList(last.a.skip, t)
    /\ ~OutputExisted(t)

\* the eligible units of work of the invocation in `last`, in the launcher's
\* order, by their labels: tasks for launch_cls and launch_cov, workspace
\* groups with an eligible task for launch_cov_batches
EligibleLabels ==
    IF last.op = "launch_cov_batches"
    THEN LET cw == get_jobs_with_same_cwsp(data)
             names == [i \in DOMAIN cw |-> basename(cw[i].fname)]
             ok(i) == /\ ~InStr(names[i], last.qjobs)
                      /\ \E t \in Range(cw[i].trs_list) : EligibleTask(t)
             idx == SelectSeq([i \in DOMAIN cw |-> i], ok)
         IN  [k \in DOMAIN idx |-> names[idx[k]]]
    ELSE LET ok(t) == ~InStr(LabelOfTask(t), last.qjobs) /\ EligibleTask(t)
             ts == SelectSeq(Candidates, ok)
         IN  [k \in DOMAIN ts |-> LabelOfTask(ts[k])]

\* C5: with njobs = N and M eligible units of work, launch_cls, launch_cov
\* and launch_cov_batches submit exactly min(N, M) jobs, for the first
\* min(N, M) eligible units in the launcher's order.
C5_JobCap ==
    last.op \in SnapshotLaunchers =>
        LabelsOf(last.submitted)
            = SubSeq(EligibleLabels, 1, Min(last.a.njobs, Len(EligibleLabels)))

\* more eligible units than the cap allows
C5_Witness ==
    /\ last.op = "launch_cov_batches"
    /\ last.a.njobs = 1
    /\ Len(EligibleLabels) = 2
    /\ Len(last.submitted) = 1

\* the units of work of the invocation in `last` that are eligible but for
\* the queue snapshot
OtherwiseEligible ==
    IF last.op = "launch_cov_batches"
    THEN LET cw == get_jobs_with_same_cwsp(data)
         IN  {basename(cw[i].fname) :
                 i \in {k \in DOMAIN cw : \E t \in Range(cw[k].trs_list) : EligibleTask(t)}}
    ELSE {LabelOfTask(t) : t \in {u \in Range(Candidates) : EligibleTask(u)}}

\* what C6 says of the submissions, given the snapshot
SnapshotFilters ==
    /\ \A i \in DOMAIN last.submitted : ~InStr(last.submitted[i].comment, last.qjobs)
    /\ Len(last.submitted)
         = Min(last.a.njobs,
               Cardinality({l \in OtherwiseEligible : ~InStr(l, last.qjobs)}))

\* C6 as stated: launch_cls, launch_cov and launch_cov_batches take one
\* snapshot of the queue per invocation, never submit a unit whose label is
\* found in it, and do not count such a unit towards the cap.
C6_OneSnapshotPerInvocation ==
    last.op \in SnapshotLaunchers =>
        /\ last.qjobs = last.q0
        /\ SnapshotFilters

\* C6 amended: on the host glamdring the three launchers take exactly one
\* snapshot of the queue per invocation; on any other host they do not query
\* the queue and the snapshot is the empty text.  They never submit a unit
\* whose label is found in the snapshot, and such a unit does not count
\* towards the cap.
C6_SnapshotFiltering ==
    last.op \in SnapshotLaunchers =>
        /\ last.nq = (IF last.a.host = "glamdring" THEN 1 ELSE 0)
        /\ last.qjobs = (IF last.a.host = "glamdring" THEN last.q0 ELSE <<>>)
        /\ SnapshotFilters

\* a unit in the snapshot is passed over and the next one is submitted,
\* the cap being one
C6_Witness ==
    /\ last.op = "launch_cls"
    /\ last.a.host = "glamdring"
    /\ last.a.njobs = 1
    /\ \E l \in OtherwiseEligible : InStr(l, last.qjobs)
    /\ Len(last.submitted) = 1

\* C7: check_skip is true exactly when some tracer of the task has its full
\* identifier or its bare group name in the skip-list, and no launcher
\* dispatches a task for which it is true.
C7_SkipList ==
    last.op \in TaskLaunchers =>
        \A t \in Range(Candidates) :
            /\ check_skip(data, last.a.skip, t) <=> InSkipList(last.a.skip, t)
            /\ check_skip(data, last.a.skip, t) => t \notin Dispatched

\* a task skipped for the identifier of its second tracer, another one
\* dispatched
C7_Witness ==
    /\ last.op = "launch_cls"
    /\ last.a.skip = {TrA1}
    /\ <<TrA0, TrA1>> \in Range(Candidates)
    /\ <<TrA0, TrB0>> \in Dispatched

\* the tasks the configuration returns for the launcher in `last`, over the
\* wsp=True and the wsp=False partitions
ConfigTasks ==
    IF last.op = "launch_cls" THEN Range(data.cl_wsp) \cup Range(data.cl_nowsp)
    ELSE ConfigCovTasks(data)

\* C8: one invocation of launch_cls or launch_cov submits each distinct task
\* at most once, also when both partitions return it, and no task of either
\* partition is missing from the candidates: with nothing queued, skipped or
\* computed and a cap not below their number, every task is submitted.
C8_NoDuplicateNoDrop ==
    last.op \in {"launch_cls", "launch_cov"} =>
        /\ \A i, j \in DOMAIN last.submitted :
               i # j => last.submitted[i].trs # last.submitted[j].trs
        /\ Range(Candidates) = ConfigTasks
        /\ ( /\ last.qjobs = <<>>
             /\ last.a.njobs >= Cardinality(ConfigTasks)
             /\ \A t \in ConfigTasks : EligibleTask(t) )
           => Range(TasksOf(last.submitted)) = ConfigTasks

\* the same task is returned by both partitions and is submitted, once, with
\* a cap of two
C8_Witness ==
    /\ last.op = "launch_cov"
    /\ last.a.njobs = 2
    /\ Range(data.cov_wsp) \cap Range(data.cov_nowsp) # {}
    /\ Len(last.submitted) = 1

\* the places (outer script, line) where the outer scripts submitted by the
\* invocation in `last` call the per-group script sh
CallsOf(sh) ==
    { ij \in (DOMAIN last.submitted) \X (1..Len(last.sh_tbc)) :
        /\ ij[2] \in DOMAIN last.submitted[ij[1]].sh
        /\ last.submitted[ij[1]].sh[ij[2]] = sh }

\* C13: the per-group scripts an invocation of launch_cov_batches2 generates
\* are split over its outer scripts so that each per-group script is called
\* by exactly one outer script: none is left out and none is called by two
\* nodes.
C13_EachScriptOnOneNode ==
    last.op = "launch_cov_batches2" =>
        \A sh \in Range(last.sh_tbc) : Cardinality(CallsOf(sh)) = 1

\* the Cl tasks whose output file was missing when the invocation in `last`
\* began
ClMissing ==
    { t \in Range(ClTracers(data)) : ClFile(last.a.fiducial, t[1], t[2]) \notin last.fs0 }

\* the invocation in `last` is a launch_cls with an empty queue snapshot, an
\* empty skip-list, no forced recomputation and a cap that does not bind
ClsUnfiltered ==
    /\ last.op = "launch_cls"
    /\ last.qjobs = <<>>
    /\ last.a.skip = {}
    /\ ~data.recompute.cls /\ ~data.recompute.mcm
    /\ last.a.njobs >= Len(ClTracers(data))

\* C14: such an invocation submits exactly one job for each Cl task whose
\* output is missing and none for the others; so once the outputs all exist,
\* an invocation with the same configuration submits nothing.
C14_RunToFixpoint ==
    ClsUnfiltered =>
        /\ Range(TasksOf(last.submitted)) = ClMissing
        /\ Len(last.submitted) = Cardinality(ClMissing)
        /\ ClMissing = {} => last.submitted = <<>>

\* the second invocation: the first one's jobs have written every output, and
\* nothing is submitted
C14_Witness ==
    /\ ClsUnfiltered
    /\ nextid = 2
    /\ Len(ClTracers(data)) = 2
    /\ ClMissing = {}
    /\ last.submitted = <<>>
    /\ queue = {}

-----------------------------------------------------------------------------
(* Claims about the entry point (SpecMain)                                 *)

\* the arguments are a to_sacc with both --to_sacc_use_nl and
\* --to_sacc_use_fiducial, or a compute mode that is none of cls, cov, to_sacc
BadArguments(m) ==
    \/ m.compute = "to_sacc" /\ m.to_sacc_use_nl /\ m.to_sacc_use_fiducial
    \/ m.compute \notin {"cls", "cov", "to_sacc"}

\* the run in `last` submitted no job, wrote no script and changed no file,
\* lock files included
NothingDone ==
    /\ last.submitted = <<>>
    /\ queue = last.queue0
    /\ scripts = last.scr0
    /\ files = last.fs0

-----------------------------------------------------------------------------
(* Claims about get_mem (SpecMem)                                          *)

\* C17: for the modes cls and cov the memory of a concatenation of two
\* tracer lists is the sum of the memories of the two lists, and the memory
\* of the empty list is 0; for any other mode get_mem raises the
\* invalid-argument error, on every list, the empty one included.
C17_MemoryAdditive ==
    last.op = "get_mem" =>
        IF last.compute \in {"cls", "cov"}
        THEN /\ last.rA.raised = "none" /\ last.rB.raised = "none"
             /\ last.rAB.raised = "none"
             /\ last.rAB.mem = last.rA.mem + last.rB.mem
             /\ last.rNone.raised = "none" /\ last.rNone.mem = 0
        ELSE /\ last.rA.raised = "ValueError" /\ last.rB.raised = "ValueError"
             /\ last.rAB.raised = "ValueError"
             /\ last.rNone.raised = "ValueError"

\* mode cov, a spin-0 and a spin-2 tracer: 16 + 47
C17_Witness ==
    /\ last.op = "get_mem"
    /\ last.compute = "cov"
    /\ last.A = <<TrA0>> /\ last.B = <<TrB0>>
    /\ last.spin[TrA0] = 0 /\ last.spin[TrB0] = 2
    /\ last.rAB.mem = 63

-----------------------------------------------------------------------------
(* Claims about the scripts a launcher writes (SpecDriver)                 *)

\* the lines of a script that hold command c
LinesOf(script, c) == {i \in DOMAIN script : script[i] = c}

\* the lines of a script that hold a covariance computation
CovLines(script) == {i \in DOMAIN script : script[i].cmd = "cov"}

\* the workspace groups for which the launch_cov_batches2 invocation in
\* `last` generated a per-group script
GroupsScripted ==
    { g \in Range(get_jobs_with_same_cwsp(data)) : ShName(g.fname) \in Range(last.sh_tbc) }

\* C18: in a per-group script generated by launch_cov_batches2 the command
\* that removes the lock occurs once, after every covariance command, and is
\* run whether those commands succeed or fail; with remove_cwsp the command
\* that removes the workspace occurs once, after the removal of the lock;
\* without remove_cwsp no command removes the workspace.
C18_ScriptOrder ==
    last.op = "launch_cov_batches2" =>
        \A g \in GroupsScripted :
            LET script == scripts[ShName(g.fname)]
                unlock == LinesOf(script, RmCmd(LockPath(g.fname)))
                rmcw   == LinesOf(script, RmCmd(g.fname))
            IN  /\ Cardinality(unlock) = 1
                /\ \A i \in CovLines(script) : \A u \in unlock : i < u
                /\ \A ok \in SUBSET {script[i].trs : i \in CovLines(script)} :
                       LockPath(g.fname) \notin
                           RunScript(data, files \cup {LockPath(g.fname)}, script, ok)
                /\ IF last.a.remove_cwsp
                   THEN /\ Cardinality(rmcw) = 1
                        /\ \A u \in unlock : \A w \in rmcw : u < w
                   ELSE rmcw = {}

\* a script with two covariance commands, then the removal of the lock, then
\* that of the workspace
C18_Witness ==
    /\ last.op = "launch_cov_batches2"
    /\ last.a.remove_cwsp
    /\ \E g \in GroupsScripted :
         /\ Len(scripts[ShName(g.fname)]) = 4
         /\ Cardinality(CovLines(scripts[ShName(g.fname)])) = 2

\* the tracers of the covariance commands of a script, in the order of its
\* lines
RECURSIVE CovTrsOf(_)
CovTrsOf(script) ==
    IF script = <<>> THEN <<>>
    ELSE IF Head(script).cmd = "cov"
         THEN <<Head(script).trs>> \o CovTrsOf(Tail(script))
         ELSE CovTrsOf(Tail(script))

\* the covariance file of task trs was missing when the invocation in `last`
\* began, or the configuration forces its recomputation
CovWanted(trs) ==
    \/ CovFile(trs) \notin last.fs0
    \/ data.recompute.cov
    \/ data.recompute.cmcm

\* a tracer of task trs, or its bare name, is in the skip-list of the
\* invocation in `last`
SkipListed(trs) ==
    \E i \in DOMAIN trs :
        trs[i] \in last.a.skip \/ get_tracer_bare_name(trs[i]) \in last.a.skip

CovToCompute(trs) == CovWanted(trs) /\ ~SkipListed(trs)

\* C19: a per-group script written by launch_cov_batches or
\* launch_cov_batches2 holds one covariance command for each task of the
\* group whose output is missing or whose recomputation is forced and that
\* is not skip-listed, in the order of the group's tasks, and no covariance
\* command for any other task.
C19_ScriptContent ==
    last.op \in {"launch_cov_batches", "launch_cov_batches2"} =>
        \A g \in Range(get_jobs_with_same_cwsp(data)) :
            ShName(g.fname) \in ScriptsWritten =>
                CovTrsOf(scripts[ShName(g.fname)]) = SelectSeq(g.trs_list, CovToCompute)

\* a script written for a group of two tasks, one of them skip-listed
C19_Witness ==
    /\ last.op \in {"launch_cov_batches", "launch_cov_batches2"}
    /\ \E g \in Range(get_jobs_with_same_cwsp(data)) :
         /\ ShName(g.fname) \in ScriptsWritten
         /\ Len(g.trs_list) = 2
         /\ \E i \in 1..2 : SkipListed(g.trs_list[i])
         /\ Len(CovTrsOf(scripts[ShName(g.fname)])) = 1

\* C20: launch_cov_batches2 submits an outer batch job only when the outer
\* script calls at least one per-group script; when no per-group script is
\* generated (every group locked or without a task to compute) it submits
\* no job.
C20_NoEmptyBatch ==
    last.op = "launch_cov_batches2" =>
        /\ \A i \in DOMAIN last.submitted : last.submitted[i].sh # <<>>
        /\ last.sh_tbc = <<>> => last.submitted = <<>>

-----------------------------------------------------------------------------
(* launch_cov_batches2 invocations, one after the other, with batch jobs   *)
(* that the scheduler may end before their script is over (SpecCrash)      *)

InitCrash ==
    /\ data \in ConcConfigs
    /\ files = {}
    /\ scripts = <<>>
    /\ queue = {}
    /\ last = NoCall
    /\ drv = <<>>
    /\ nextid = 0
    /\ partial = {}

\* the scheduler ends a batch job (wall time, node failure) after k of its
\* per-group scripts, either before the next one starts or between its
\* covariance commands and its rm commands
JobKilled ==
    /\ last = NoCall
    /\ \E j \in queue : \E k \in 0..(Len(j.sh) - 1) :
       \E ok \in SUBSET JobTasks(scripts, j) :
         LET done == RunOuter(data, files, scripts, SubSeq(j.sh, 1, k), ok)
             cur == LeadingCovs(ScriptAt(scripts, j.sh[k + 1]))
         IN  /\ files' \in {done, RunScript(data, done, cur, ok)}
             /\ queue' = queue \ {j}
    /\ UNCHANGED <<data, scripts, last, drv, nextid, partial>>

NextCrash ==
    \/ LaunchCovBatches2
    \/ Exit
    \/ JobFinish
    \/ JobKilled

SpecCrash == InitCrash /\ [][NextCrash]_vars

-----------------------------------------------------------------------------
(* Claims about locks left behind (SpecCrash)                              *)

\* outer job j calls a per-group script that, as it is on disk, holds the
\* command that removes the lock of workspace cw
Unlocks(j, cw) ==
    \E i \in DOMAIN j.sh : RmCmd(LockPath(cw)) \in Range(ScriptAt(scripts, j.sh[i]))

\* the lock of workspace cw is on disk and no job of the queue holds the
\* command that removes it
Orphaned(cw) ==
    /\ LockPath(cw) \in files
    /\ \A j \in queue : ~Unlocks(j, cw)

\* the step is an invocation of launch_cov_batches2
Cb2Invoked == last = NoCall /\ last'.op = "launch_cov_batches2"

-----------------------------------------------------------------------------
(* Claims about the locks one invocation creates (SpecDriver)              *)

\* the invocation of launch_cov_batches2 in `last` created the lock of
\* workspace cw: it listed the group's script, or the lock is on disk and was
\* not when the invocation began
LockCreated(cw) ==
    \/ ShName(cw) \in Range(last.sh_tbc)
    \/ LockPath(cw) \in files \ last.fs0

\* C22: at the end of an invocation of launch_cov_batches2, each lock the
\* invocation created is that of a group whose script was written with at
\* least one covariance command and the command that removes the lock, and
\* that script is called by an outer script the invocation submitted; a
\* group with nothing to compute got no lock and no script.
C22_LockOnlyWithWork ==
    last.op = "launch_cov_batches2" =>
        \A g \in Range(get_jobs_with_same_cwsp(data)) :
            LET cw == g.fname
                script == ScriptAt(scripts, ShName(cw))
            IN  /\ LockCreated(cw) =>
                     /\ ShName(cw) \in DOMAIN scripts
                     /\ CovLines(script) # {}
                     /\ RmCmd(LockPath(cw)) \in Range(script)
                     /\ \E i \in DOMAIN last.submitted :
                            ShName(cw) \in Range(last.submitted[i].sh)
                /\ SelectSeq(g.trs_list, CovToCompute) = <<>> =>
                     /\ ~LockCreated(cw)
                     /\ script = ScriptAt(last.scr0, ShName(cw))

\* an invocation that left the lock of one group on disk, its script being
\* called by a submitted job, and gave no lock to a group with nothing to
\* compute
C22_Witness ==
    /\ last.op = "launch_cov_batches2"
    /\ \E g1, g2 \in Range(get_jobs_with_same_cwsp(data)) :
         /\ LockPath(g1.fname) \in files \ last.fs0
         /\ \E j \in queue : ShName(g1.fname) \in Range(j.sh)
         /\ SelectSeq(g2.trs_list, CovToCompute) = <<>>
         /\ LockPath(g2.fname) \notin files

-----------------------------------------------------------------------------
(* Claims about the groups as a partition (SpecCwsp)                       *)

\* the path of the workspace of task t, from its own mask names
OwnPath(d, t) ==
    PathJoin(OutDir,
        <<"c", "o", "v", "/", "c", "w", "_", "_">> \o CwName(MasksOf(d, t))
        \o <<".", "f", "i", "t", "s">>)

\* the places of the dict cw where task t is listed
PlacesOf(cw, t) ==
    { ij \in (DOMAIN cw) \X (1..Cardinality(ConfigCovTasks(data))) :
        /\ ij[2] \in DOMAIN cw[ij[1]].trs_list
        /\ cw[ij[1]].trs_list[ij[2]] = t }

\* C23: the mapping get_jobs_with_same_cwsp returns is a partition of the
\* merged, de-duplicated covariance tasks: each task is listed once, in one
\* group, the one keyed by the path made of its own mask names; no group is
\* empty, no key occurs twice, and the groups list nothing but the tasks of
\* the configuration.
C23_GroupsPartition ==
    last.op = "get_jobs_with_same_cwsp" =>
        /\ \A t \in ConfigCovTasks(data) :
              /\ Cardinality(PlacesOf(last.cwsp, t)) = 1
              /\ \A ij \in PlacesOf(last.cwsp, t) :
                     last.cwsp[ij[1]].fname = OwnPath(data, t)
        /\ \A i \in DOMAIN last.cwsp : last.cwsp[i].trs_list # <<>>
        /\ \A i, j \in DOMAIN last.cwsp :
              last.cwsp[i].fname = last.cwsp[j].fname => i = j
        /\ UNION {Range(last.cwsp[i].trs_list) : i \in DOMAIN last.cwsp}
               = ConfigCovTasks(data)

\* two tasks with different mask quadruples are listed, once each, under one
\* path
C23_Witness ==
    /\ last.op = "get_jobs_with_same_cwsp"
    /\ \E i \in DOMAIN last.cwsp :
         /\ Len(last.cwsp[i].trs_list) = 2
         /\ MasksOf(data, last.cwsp[i].trs_list[1]) # MasksOf(data, last.cwsp[i].trs_list[2])

-----------------------------------------------------------------------------
(* The launchers that read the queue, on tracers whose labels extend one   *)
(* another (SpecLabel)                                                     *)

TrB1 == <<"B", "_", "_", "1">>

TrB10 == <<"B", "_", "_", "1", "0">>

LabelMasks == [tr \in {TrA0, TrB1, TrB10} |-> MaskM]

\* two Cl tasks, or two covariance tasks, the label of the first being the
\* beginning of the label of the second
LabelConfigs ==
    { [ cl_wsp |-> <<<<TrA0, TrB1>>, <<TrA0, TrB10>>>>, cl_nowsp |-> <<>>,
        cov_wsp |-> <<>>, cov_nowsp |-> <<>>,
        mask_name |-> LabelMasks, recompute |-> NoRecompute ],
      [ cl_wsp |-> <<>>, cl_nowsp |-> <<>>,
        cov_wsp |-> <<<<TrA0, TrA0, TrA0, TrB1>>, <<TrA0, TrA0, TrA0, TrB10>>>>,
        cov_nowsp |-> <<>>,
        mask_name |-> LabelMasks, recompute |-> NoRecompute ] }

InitLabel ==
    /\ data \in LabelConfigs
    /\ files = {}
    /\ scripts = <<>>
    /\ queue = {}
    /\ last = NoCall
    /\ drv = <<>>
    /\ nextid = 0
    /\ partial = {}

NextLabel ==
    \/ LaunchCls
    \/ LaunchCov
    \/ LaunchCovBatches
    \/ Exit
    \/ JobFinish

SpecLabel == InitLabel /\ [][NextLabel]_vars

-----------------------------------------------------------------------------
(* Claims about the matching of labels against the queue (SpecLabel)       *)

\* a job of the queue snapshot of the invocation in `last` carries exactly
\* the label l: l is a whole line of the snapshot
ExactlyQueued(l) ==
    InStr(<<"\n">> \o l \o <<"\n">>, <<"\n">> \o last.qjobs \o <<"\n">>)

\* C24: launch_cls, launch_cov and launch_cov_batches treat a unit of work
\* as in flight only when a job of the queue snapshot carries exactly its
\* label: an eligible unit whose label is only a part of the label of a
\* queued job is submitted when the cap is not reached.
C24_ExactLabelMatch ==
    last.op \in SnapshotLaunchers =>
        \A l \in OtherwiseEligible :
            (~ExactlyQueued(l) /\ Len(last.submitted) < last.a.njobs)
                => l \in Range(LabelsOf(last.submitted))

-----------------------------------------------------------------------------
(* Claims about who removes a lock and a workspace (Spec)                  *)

\* driver process p has created the lock of workspace cw and listed the
\* group's script, and has still to submit an outer script that calls it
Unsubmitted(p, cw) ==
    /\ drv[p].pc # "done"
    /\ \E n \in drv[p].nodei..(drv[p].a.nnodes - 1) :
         ShName(cw) \in
             Range(Cb2Chunk(drv[p].sh_tbc, n,
                     Cb2NJobs(drv[p].njobs, Len(drv[p].cwsp), drv[p].a.nnodes)))

\* invocation p has created the lock of workspace cw and its script for the
\* group has not yet run the command that removes the lock
Claims(p, cw) ==
    \/ p \in DOMAIN drv /\ Unsubmitted(p, cw)
    \/ \E j \in queue : j.id[1] = p /\ Holds(j, cw)

\* the step is job j running the command that removes the lock of cw, the
\* lock being on disk
RemovesLock(j, cw) ==
    /\ j.cmds # <<>>
    /\ Head(j.cmds) = RmCmd(LockPath(cw))
    /\ queue' = Requeue(j, Advance(j, Tail(j.cmds)))
    /\ LockPath(cw) \in files
    /\ LockPath(cw) \notin files'

\* C25: whatever the interleaving of invocations and batch jobs, when the
\* script of a job removes a lock, the lock is that of the invocation that
\* wrote and dispatched the script: no other invocation has created the lock
\* for the same workspace and still relies on it.
C25_LockRemovedByOwner ==
    [][\A cw \in AllCw : \A j \in queue :
          RemovesLock(j, cw) => \A q \in Procs \ {j.id[1]} : ~Claims(q, cw)]_vars

\* the step is job j running the command that removes the workspace cw, the
\* file being on disk
RemovesCwsp(j, cw) ==
    /\ j.cmds # <<>>
    /\ Head(j.cmds) = RmCmd(cw)
    /\ queue' = Requeue(j, Advance(j, Tail(j.cmds)))
    /\ cw \in files
    /\ cw \notin files'

\* C27: whatever the interleaving of a per-group script with a later
\* invocation and the job it dispatches, the script does not delete the
\* workspace file while the lock of the workspace is on disk and held by a
\* job of another invocation.
C27_CwspRemovalRespectsLock ==
    [][\A cw \in AllCw : \A j \in queue :
          RemovesCwsp(j, cw) =>
              ~ /\ LockPath(cw) \in files
                /\ \E k \in queue : k.id[1] # j.id[1] /\ Holds(k, cw)]_vars

-----------------------------------------------------------------------------
(* save_wsp and read_wsp called by processes that run at the same time     *)
(* (SpecWspConc)                                                           *)

\* a process calls save_wsp(wsp, fname) or read_wsp(wsp, fname, ...) while
\* the calls of other processes may still be running
WspCallConc ==
    /\ nextid < MaxCalls
    /\ \E op \in {"save_wsp", "read_wsp"}, fname \in WspFnames :
         drv' = Append(drv, NewCall(op, fname))
    /\ nextid' = nextid + 1
    /\ UNCHANGED <<data, files, scripts, queue, last, partial>>

NextWspConc ==
    \/ WspCallConc
    \/ \E p \in WspProcs : WspStep(p)

SpecWspConc == InitWsp /\ [][NextWspConc]_vars

-----------------------------------------------------------------------------
(* Claims about files shared by save_wsp and read_wsp (SpecWspConc,        *)
(* SpecWsp)                                                                *)

\* the step is process p deleting the file of its call
Deletes(p) ==
    /\ drv[p].pc = "remove"
    /\ drv[p].fname \in files
    /\ drv[p].fname \notin files'
    /\ drv'[p].removes = drv[p].removes + 1

\* process q is in the middle of writing the file at fname
Writing(q, fname) ==
    drv[q].op = "save_wsp" /\ drv[q].fname = fname /\ drv[q].pc = "writing"

\* process q has written the file at fname and it is complete on disk
HasWritten(q, fname) ==
    /\ drv[q].op = "save_wsp" /\ drv[q].fname = fname
    /\ drv[q].pc = "returned" /\ drv[q].writes > 0
    /\ FileState(files, partial, fname) = "whole"

\* C26: when processes are in save_wsp or read_wsp on the same path at the
\* same time, none deletes a file that another is in the middle of writing
\* or has completely written.
C26_NoDestructiveInterference ==
    [][\A p, q \in DOMAIN drv :
          (p # q /\ Deletes(p)) =>
              ~(Writing(q, drv[p].fname) \/ HasWritten(q, drv[p].fname))]_vars

\* C28: when a call of save_wsp has ended, by returning or by raising, the
\* file at fname is absent or complete; and a call that found a file at
\* fname has made no write and no deletion.
C28_NoPartialArtifact ==
    \A p \in Ended("save_wsp") :
        /\ p = Len(drv) => FileState(files, partial, drv[p].fname) \in {"absent", "whole"}
        /\ drv[p].f0 # "absent" => drv[p].writes = 0 /\ drv[p].removes = 0

====
